---- MODULE Spec2Model ----
(***************************************************************************)
(* Model of the glaze-graph frontend: the App component's catalog loader   *)
(* (useState/useEffect/loadData), App's render, and the image latches of   *)
(* ItemCard and GlazeDisplay.                                              *)
(*                                                                         *)
(* JavaScript strings that the code builds from pieces (template literals, *)
(* error messages) are modelled as tuples of pieces; the string is the     *)
(* concatenation of the pieces, so it is empty iff every piece is "".      *)
(* React (19.2.4, SETUP_COMPLETE.md:33) batches the setter calls made in   *)
(* one synchronous continuation into one commit followed by one render,    *)
(* discards updates addressed to an unmounted component, and removes the   *)
(* whole tree when a render throws and no error boundary exists.           *)
(***************************************************************************)
EXTENDS Integers, Sequences, FiniteSets, TLC

VARIABLES
    mounted,          \* App is mounted
    pc,               \* position of loadData: "init", "awaitFetch", "awaitJson", "done";
                      \* statement by statement also "catch", "setData", "setError",
                      \* "finally", "flush"
    fetchCount,       \* number of fetch('/data/data.json') calls issued
    response,         \* what the fetch promise settled with
    jsonCalled,       \* response.json() has been called
    data,             \* useState<DataConfig | null>
    error,            \* useState<string | null>
    loading,          \* useState(true)
    crashed,          \* a render threw: React removed the tree
    itemImageError,   \* imageError of the i-th ItemCard instance
    glazeImageError,  \* imageError of the j-th GlazeDisplay of the i-th ItemCard
    lateUpdates,      \* setter calls made after the component was unmounted
    imageErrors,      \* the load-error events delivered so far, as a set
    pending,          \* setter calls of the running continuation, queued by React
    utilInput,        \* the string handed to the functions of utils.ts
    glazeUrl,         \* result of getGlazeImageUrl(utilInput), <<>> before the call
    itemUrl           \* result of getItemImageUrl(utilInput), <<>> before the call

appVars == <<mounted, pc, fetchCount, response, jsonCalled, data, error,
             loading, crashed, itemImageError, glazeImageError, lateUpdates,
             imageErrors, pending>>

utilVars == <<utilInput, glazeUrl, itemUrl>>

vars == <<appVars, utilVars>>

(***************************************************************************)
(* Bounds                                                                  *)
(***************************************************************************)
MaxItems == 2

MaxNameLen == 4

(***************************************************************************)
(* JavaScript values                                                       *)
(***************************************************************************)
JsUndefined == [kind |-> "undefined", num |-> 0, parts |-> <<>>, items |-> <<>>]

JsNull == [kind |-> "null", num |-> 0, parts |-> <<>>, items |-> <<>>]

JsString(p) == [kind |-> "string", num |-> 0, parts |-> p, items |-> <<>>]

JsNumber(n) == [kind |-> "number", num |-> n, parts |-> <<>>, items |-> <<>>]

JsObject == [kind |-> "object", num |-> 0, parts |-> <<>>, items |-> <<>>]

JsArray(s) == [kind |-> "array", num |-> 0, parts |-> <<>>, items |-> s]

\* the string denoted by a tuple of pieces is empty
IsEmptyString(p) == \A i \in DOMAIN p : p[i] = ""

\* JavaScript truthiness, as used by !x, x && y and x || y
Truthy(v) ==
    CASE v.kind = "undefined" -> FALSE
      [] v.kind = "null"      -> FALSE
      [] v.kind = "string"    -> ~IsEmptyString(v.parts)
      [] v.kind = "number"    -> v.num # 0
      [] OTHER                -> TRUE

(***************************************************************************)
(* Inputs: catalog entities, documents, response bodies, responses and     *)
(* the values a rejected promise can carry                                 *)
(***************************************************************************)
RECURSIVE SeqsUpTo(_, _)
\* all sequences over S of length at most n
SeqsUpTo(S, n) ==
    IF n = 0 THEN {<<>>}
    ELSE LET shorter == SeqsUpTo(S, n - 1)
         IN  shorter \cup {Append(s, x) : s \in shorter, x \in S}

\* a GlazeItem (types/data.ts); glaze is a JavaScript value, absent = undefined
GlazeItem(id, name, temp, g) ==
    [itemId |-> id, item |-> name, description |-> "d", temperature |-> temp, glaze |-> g]

\* identifiers and names are strings whose pieces are single characters
HoneyFlux == <<"H", "o", "n", "e", "y", " ", "F", "l", "u", "x">>

Oatmeal == <<"O", "a", "t", "m", "e", "a", "l">>

Items ==
    { GlazeItem(<<"1">>, <<"X">>, "Cone 6", JsArray(<<HoneyFlux, Oatmeal>>)),
      GlazeItem(<<"1">>, <<"Z">>, "", JsArray(<<Oatmeal>>)),
      GlazeItem(<<"2">>, <<"Y">>, "Cone 6", JsArray(<<>>)),
      GlazeItem(<<"3">>, <<"W">>, "", JsUndefined) }

\* values of the `links` field of a parsed document; undefined = field absent
LinksValues ==
    {JsUndefined, JsNull, JsString(<<"abc">>), JsNumber(5), JsObject}
        \cup {JsArray(s) : s \in SeqsUpTo(Items, MaxItems)}

\* the value of `data`: null, or a parsed JSON value; only an object has fields
DocNull == [kind |-> "null", links |-> JsUndefined]

DocObject(l) == [kind |-> "object", links |-> l]

Documents == {DocNull} \cup {DocObject(l) : l \in LinksValues}

MalformedBody == [wellFormed |-> FALSE, json |-> DocNull]

Bodies == {MalformedBody} \cup {[wellFormed |-> TRUE, json |-> d] : d \in Documents}

\* a value carried by a rejected promise or thrown: an Error with a message, or not an Error
ErrorValue(msg) == [isError |-> TRUE, message |-> msg]

NonErrorValue == [isError |-> FALSE, message |-> <<>>]

\* what fetch() rejects with: a TypeError of the browser, or some other value.
\* Browsers give these errors a non-empty message, as do the HTTP-status Error
\* of loadData and the SyntaxError of response.json().
FetchRejections == {ErrorValue(<<"Failed to fetch">>), NonErrorValue}

\* what response.json() rejects with on malformed syntax
SyntaxError == ErrorValue(<<"Unexpected token < in JSON at position 0">>)

Statuses == {200, 404, 500}

Responses ==
    {[status |-> 200, body |-> b] : b \in Bodies}
        \cup {[status |-> s, body |-> b] :
                s \in Statuses \ {200},
                b \in {MalformedBody, [wellFormed |-> TRUE, json |-> DocObject(JsArray(<<>>))]}}

NoThrown == [isError |-> FALSE, message |-> <<"">>]

NoResponse == [outcome |-> "none", status |-> 0, body |-> MalformedBody, thrown |-> NoThrown]

Rejected(e) == [outcome |-> "rejected", status |-> 0, body |-> MalformedBody, thrown |-> e]

Resolved(r) == [outcome |-> "resolved", status |-> r.status, body |-> r.body, thrown |-> NoThrown]

\* Response.ok of the Fetch API: the status is in the range 200-299
ResponseOk(status) == status >= 200 /\ status <= 299

(***************************************************************************)
(* App: loader state and the code of loadData                              *)
(***************************************************************************)
\* variant of InitialLoading: the flag starts false
InitialLoadingFalse == FALSE

\* useState(true) of `loading`
InitialLoading == TRUE

\* the three useState cells of App as one record
LoaderState(d, e, l) == [data |-> d, error |-> e, loading |-> l]

InitialState == LoaderState(DocNull, JsNull, InitialLoading)

SetData(st, v) == [st EXCEPT !.data = v]

SetError(st, v) == [st EXCEPT !.error = v]

SetLoading(st, v) == [st EXCEPT !.loading = v]

\* variant of HttpErrorMessage: the status is left out of the message
HttpErrorMessageNoStatus(status) == <<"HTTP error!">>

\* `HTTP error! status: ${response.status}`
HttpErrorMessage(status) == <<"HTTP error! status: ", ToString(status)>>

\* variant of CatchMessage: the fixed text is used for every thrown value
CatchMessageFixed(err) == <<"Failed to load data">>

\* err instanceof Error ? err.message : 'Failed to load data'
CatchMessage(err) == IF err.isError THEN err.message ELSE <<"Failed to load data">>

\* the rest of the try block after response.json() resolved
TrySuccess(st, json) == SetError(SetData(st, json), JsNull)

\* the catch block
Catch(st, err) == SetError(st, JsString(CatchMessage(err)))

\* variant of Finally: setLoading(false) is missing
FinallySkipped(st) == st

\* the finally block
Finally(st) == SetLoading(st, FALSE)

(***************************************************************************)
(* utils.ts: image locations                                               *)
(***************************************************************************)
\* the characters matched by \s that the model draws names from
Whitespace == {" ", "\t"}

IsWhitespace(c) == c \in Whitespace

RECURSIVE SkipWhitespace(_)
\* the rest of s after the greedy match of \s* at its start
SkipWhitespace(s) ==
    IF s # <<>> /\ IsWhitespace(Head(s)) THEN SkipWhitespace(Tail(s)) ELSE s

RECURSIVE ReplaceEachWhitespace(_)
\* variant of ReplaceWhitespace: /\s/g, one underscore per whitespace character
ReplaceEachWhitespace(s) ==
    IF s = <<>> THEN <<>>
    ELSE <<IF IsWhitespace(Head(s)) THEN "_" ELSE Head(s)>> \o ReplaceEachWhitespace(Tail(s))

\* variant of ReplaceWhitespace: /\s+/ without the g flag, only the first run is replaced
ReplaceFirstWhitespace(s) ==
    IF \E i \in DOMAIN s : IsWhitespace(s[i])
    THEN LET first == CHOOSE i \in DOMAIN s :
                         IsWhitespace(s[i]) /\ \A k \in 1..(i - 1) : ~IsWhitespace(s[k])
         IN  SubSeq(s, 1, first - 1) \o <<"_">> \o SkipWhitespace(SubSeq(s, first, Len(s)))
    ELSE s

RECURSIVE ReplaceWhitespace(_)
\* glazeName.replace(/\s+/g, '_'): scanning left to right, every greedy match
\* of \s+ is replaced by '_' and the scan resumes after the match
ReplaceWhitespace(s) ==
    IF s = <<>> THEN <<>>
    ELSE IF IsWhitespace(Head(s))
         THEN <<"_">> \o ReplaceWhitespace(SkipWhitespace(Tail(s)))
         ELSE <<Head(s)>> \o ReplaceWhitespace(Tail(s))

\* variant of getItemImageUrl: the identifier is normalized like a glaze name
getItemImageUrlNormalized(itemId) ==
    <<"/data/images/items/">> \o ReplaceWhitespace(itemId) \o <<".jpg">>

\* `/data/images/items/${itemId}.jpg`
getItemImageUrl(itemId) == <<"/data/images/items/">> \o itemId \o <<".jpg">>

\* `/data/images/glazes/${normalized}.jpg`
getGlazeImageUrl(glazeName) ==
    <<"/data/images/glazes/">> \o ReplaceWhitespace(glazeName) \o <<".jpg">>

(***************************************************************************)
(* App: render                                                             *)
(***************************************************************************)
\* data?.links
GetLinks(d) == IF d.kind = "object" THEN d.links ELSE JsUndefined

\* {loading && ...}
LoadingCond(st) == st.loading

\* {error && ...}
ErrorCond(st) == Truthy(st.error)

\* {!loading && !error && data?.links && ...}
GridCond(st) == ~st.loading /\ ~Truthy(st.error) /\ Truthy(GetLinks(st.data))

\* {!loading && !error && !data?.links && ...}
EmptyCond(st) == ~st.loading /\ ~Truthy(st.error) /\ ~Truthy(GetLinks(st.data))

\* item.glaze.map(...) in ItemCard throws a TypeError unless glaze is an array
ItemCardThrows(item) == item.glaze.kind # "array"

\* data.links.map(...) throws a TypeError unless links is an array; a throwing
\* ItemCard makes the render of App throw too
AppThrows(st) ==
    /\ GridCond(st)
    /\ \/ GetLinks(st.data).kind # "array"
       \/ \E i \in DOMAIN GetLinks(st.data).items : ItemCardThrows(GetLinks(st.data).items[i])

\* the entities handed to ItemCard, in order
RenderedItems(st) ==
    IF GridCond(st) /\ ~AppThrows(st) THEN GetLinks(st.data).items ELSE <<>>

\* useState(false) of every ItemCard mounted by this render
ItemLatches(st) == [i \in DOMAIN RenderedItems(st) |-> FALSE]

\* useState(false) of every GlazeDisplay mounted by this render
GlazeLatches(st) ==
    [i \in DOMAIN RenderedItems(st) |->
        [j \in DOMAIN RenderedItems(st)[i].glaze.items |-> FALSE]]

\* the image area of a component: the <img> that requests src, or the placeholder
Img(src, alt) == [tag |-> "img", src |-> src, text |-> alt]

Placeholder(text) == [tag |-> "placeholder", src |-> <<>>, text |-> text]

\* variant of GlazeDisplayView: the image is requested under the items path
GlazeDisplayViewItemsPath(glazeName, imageError) ==
    [title |-> glazeName,
     image |-> IF ~imageError THEN Img(getItemImageUrl(glazeName), glazeName)
               ELSE Placeholder(<<"Image not found: ">> \o glazeName)]

\* what GlazeDisplay renders for a name and its imageError
GlazeDisplayView(glazeName, imageError) ==
    [title |-> glazeName,
     image |-> IF ~imageError THEN Img(getGlazeImageUrl(glazeName), glazeName)
               ELSE Placeholder(<<"Image not found: ">> \o glazeName)]

\* what ItemCard renders for an entity, its imageError and those of its GlazeDisplays
ItemCardView(item, imageError, glazeErrors) ==
    [title |-> item.item,
     image |-> IF ~imageError THEN Img(getItemImageUrl(item.itemId), item.item)
               ELSE Placeholder(<<"Item image not found: ">> \o item.itemId),
     glazes |-> [j \in DOMAIN item.glaze.items |->
                    GlazeDisplayView(item.glaze.items[j], glazeErrors[j])]]

\* HealthCheck's status text
HealthCheck(healthy, errorMessage) ==
    [healthy |-> healthy,
     text |-> IF healthy THEN <<"Healthy">>
              ELSE <<"Error: ">> \o (IF Truthy(errorMessage) THEN errorMessage.parts
                                     ELSE <<"Unknown">>)]

\* variant of HealthProps: healthy={!error}, the loading flag is left out
HealthPropsIgnoresLoading(st) ==
    HealthCheck(~Truthy(st.error),
                IF Truthy(st.error) THEN st.error ELSE JsUndefined)

\* <HealthCheck healthy={!error && !loading} errorMessage={error || undefined} />
HealthProps(st) ==
    HealthCheck(~Truthy(st.error) /\ ~st.loading,
                IF Truthy(st.error) THEN st.error ELSE JsUndefined)

\* static hint of the error panel
Hint == <<"Make sure ", "/data/data.json", " exists and is valid JSON.">>

\* the error panel: heading, {error}, hint; nothing when error is falsy
ErrorPanel(st) ==
    IF ErrorCond(st) THEN <<<<"Error Loading Data">>, st.error.parts, Hint>> ELSE <<>>

(***************************************************************************)
(* State machine                                                           *)
(***************************************************************************)
\* the loader state held by the component
Current == LoaderState(data, error, loading)

\* React applies the n setter calls of one continuation as one commit and
\* renders; the calls are discarded when the component is no longer mounted
Commit(st, n) ==
    IF mounted
    THEN /\ data' = st.data
         /\ error' = st.error
         /\ loading' = st.loading
         /\ crashed' = AppThrows(st)
         /\ itemImageError' = ItemLatches(st)
         /\ glazeImageError' = GlazeLatches(st)
         /\ UNCHANGED lateUpdates
    ELSE /\ UNCHANGED <<data, error, loading, crashed, itemImageError, glazeImageError>>
         /\ lateUpdates' = lateUpdates + n

\* App before it is mounted
AppInit ==
    /\ mounted = FALSE
    /\ pc = "init"
    /\ fetchCount = 0
    /\ response = NoResponse
    /\ jsonCalled = FALSE
    /\ data = InitialState.data
    /\ error = InitialState.error
    /\ loading = InitialState.loading
    /\ crashed = FALSE
    /\ itemImageError = <<>>
    /\ glazeImageError = <<>>
    /\ lateUpdates = 0
    /\ imageErrors = {}
    /\ pending = <<>>

Init ==
    /\ AppInit
    /\ utilInput = <<>>
    /\ glazeUrl = <<>>
    /\ itemUrl = <<>>

\* first render of App, then useEffect(..., []) runs loadData up to its first await
Mount ==
    /\ pc = "init"
    /\ mounted' = TRUE
    /\ data' = InitialState.data
    /\ error' = InitialState.error
    /\ loading' = InitialState.loading
    /\ crashed' = AppThrows(InitialState)
    /\ itemImageError' = ItemLatches(InitialState)
    /\ glazeImageError' = GlazeLatches(InitialState)
    /\ fetchCount' = fetchCount + 1
    /\ pc' = "awaitFetch"
    /\ UNCHANGED <<response, jsonCalled, lateUpdates>>
    /\ UNCHANGED <<utilVars, imageErrors, pending>>

\* the page unmounts App; the effect has no cleanup function
Unmount ==
    /\ mounted
    /\ mounted' = FALSE
    /\ UNCHANGED <<pc, fetchCount, response, jsonCalled, data, error, loading,
                   crashed, itemImageError, glazeImageError, lateUpdates>>
    /\ UNCHANGED <<utilVars, imageErrors, pending>>

\* await fetch(...) rejects: catch, finally
FetchRejects ==
    /\ pc = "awaitFetch"
    /\ \E e \in FetchRejections :
          /\ response' = Rejected(e)
          /\ Commit(Finally(Catch(Current, e)), 2)
    /\ pc' = "done"
    /\ UNCHANGED <<mounted, fetchCount, jsonCalled>>
    /\ UNCHANGED <<utilVars, imageErrors, pending>>

\* await fetch(...) resolves with !response.ok: throw, catch, finally
FetchResolvesNotOk ==
    /\ pc = "awaitFetch"
    /\ \E r \in Responses :
          /\ ~ResponseOk(r.status)
          /\ response' = Resolved(r)
          /\ Commit(Finally(Catch(Current, ErrorValue(HttpErrorMessage(r.status)))), 2)
    /\ pc' = "done"
    /\ UNCHANGED <<mounted, fetchCount, jsonCalled>>
    /\ UNCHANGED <<utilVars, imageErrors, pending>>

\* await fetch(...) resolves with response.ok: response.json() is called and awaited
FetchResolvesOk ==
    /\ pc = "awaitFetch"
    /\ \E r \in Responses :
          /\ ResponseOk(r.status)
          /\ response' = Resolved(r)
    /\ jsonCalled' = TRUE
    /\ pc' = "awaitJson"
    /\ UNCHANGED <<mounted, fetchCount, data, error, loading, crashed,
                   itemImageError, glazeImageError, lateUpdates>>
    /\ UNCHANGED <<utilVars, imageErrors, pending>>

\* await response.json() resolves: setData(json), setError(null), finally
JsonResolves ==
    /\ pc = "awaitJson"
    /\ response.body.wellFormed
    /\ Commit(Finally(TrySuccess(Current, response.body.json)), 3)
    /\ pc' = "done"
    /\ UNCHANGED <<mounted, fetchCount, response, jsonCalled>>
    /\ UNCHANGED <<utilVars, imageErrors, pending>>

\* await response.json() rejects: catch, finally
JsonRejects ==
    /\ pc = "awaitJson"
    /\ ~response.body.wellFormed
    /\ Commit(Finally(Catch(Current, SyntaxError)), 2)
    /\ pc' = "done"
    /\ UNCHANGED <<mounted, fetchCount, response, jsonCalled>>
    /\ UNCHANGED <<utilVars, imageErrors, pending>>

\* the load-error event of the <img> of the i-th ItemCard
ItemEvent(i) == <<"item", i, 0>>

\* the load-error event of the <img> of the j-th GlazeDisplay of the i-th ItemCard
GlazeEvent(i, j) == <<"glaze", i, j>>

\* variant of ItemImageError: the image failure is also reported through setError
ItemImageErrorEscalates(i) ==
    /\ mounted /\ ~crashed
    /\ i \in DOMAIN itemImageError
    /\ ~itemImageError[i]
    /\ itemImageError' = [itemImageError EXCEPT ![i] = TRUE]
    /\ error' = JsString(<<"Item image not found">>)
    /\ UNCHANGED <<mounted, pc, fetchCount, response, jsonCalled, data,
                   loading, crashed, glazeImageError, lateUpdates>>
    /\ imageErrors' = imageErrors \cup {ItemEvent(i)}
    /\ UNCHANGED <<utilVars, pending>>

\* onError of the <img> of the i-th ItemCard: setImageError(true)
ItemImageError(i) ==
    /\ mounted /\ ~crashed
    /\ i \in DOMAIN itemImageError
    /\ ~itemImageError[i]
    /\ itemImageError' = [itemImageError EXCEPT ![i] = TRUE]
    /\ UNCHANGED <<mounted, pc, fetchCount, response, jsonCalled, data, error,
                   loading, crashed, glazeImageError, lateUpdates>>
    /\ imageErrors' = imageErrors \cup {ItemEvent(i)}
    /\ UNCHANGED <<utilVars, pending>>

\* variant of GlazeImageError: the failure is remembered per locator, so every
\* GlazeDisplay of the same name switches to the placeholder
GlazeImageErrorShared(i, j) ==
    /\ mounted /\ ~crashed
    /\ i \in DOMAIN glazeImageError
    /\ j \in DOMAIN glazeImageError[i]
    /\ ~glazeImageError[i][j]
    /\ glazeImageError' =
          [k \in DOMAIN glazeImageError |->
              [l \in DOMAIN glazeImageError[k] |->
                  \/ glazeImageError[k][l]
                  \/ getGlazeImageUrl(RenderedItems(Current)[k].glaze.items[l])
                        = getGlazeImageUrl(RenderedItems(Current)[i].glaze.items[j])]]
    /\ UNCHANGED <<mounted, pc, fetchCount, response, jsonCalled, data, error,
                   loading, crashed, itemImageError, lateUpdates>>
    /\ imageErrors' = imageErrors \cup {GlazeEvent(i, j)}
    /\ UNCHANGED <<utilVars, pending>>

\* variant of GlazeImageError: one cell shared by all GlazeDisplays remembers
\* the image that failed last, so an earlier placeholder is withdrawn
GlazeImageErrorSingleSlot(i, j) ==
    /\ mounted /\ ~crashed
    /\ i \in DOMAIN glazeImageError
    /\ j \in DOMAIN glazeImageError[i]
    /\ ~glazeImageError[i][j]
    /\ glazeImageError' =
          [k \in DOMAIN glazeImageError |->
              [l \in DOMAIN glazeImageError[k] |-> k = i /\ l = j]]
    /\ UNCHANGED <<mounted, pc, fetchCount, response, jsonCalled, data, error,
                   loading, crashed, itemImageError, lateUpdates>>
    /\ imageErrors' = imageErrors \cup {GlazeEvent(i, j)}
    /\ UNCHANGED <<utilVars, pending>>

\* variant of GlazeImageError: a later event flips imageError back, the image is requested again
GlazeImageErrorToggle(i, j) ==
    /\ mounted /\ ~crashed
    /\ i \in DOMAIN glazeImageError
    /\ j \in DOMAIN glazeImageError[i]
    /\ glazeImageError' = [glazeImageError EXCEPT ![i][j] = ~@]
    /\ UNCHANGED <<mounted, pc, fetchCount, response, jsonCalled, data, error,
                   loading, crashed, itemImageError, lateUpdates>>
    /\ imageErrors' = imageErrors \cup {GlazeEvent(i, j)}
    /\ UNCHANGED <<utilVars, pending>>

\* onError of the <img> of the j-th GlazeDisplay of the i-th ItemCard: setImageError(true)
GlazeImageError(i, j) ==
    /\ mounted /\ ~crashed
    /\ i \in DOMAIN glazeImageError
    /\ j \in DOMAIN glazeImageError[i]
    /\ ~glazeImageError[i][j]
    /\ glazeImageError' = [glazeImageError EXCEPT ![i][j] = TRUE]
    /\ UNCHANGED <<mounted, pc, fetchCount, response, jsonCalled, data, error,
                   loading, crashed, itemImageError, lateUpdates>>
    /\ imageErrors' = imageErrors \cup {GlazeEvent(i, j)}
    /\ UNCHANGED <<utilVars, pending>>

Next ==
    \/ Mount
    \/ Unmount
    \/ FetchRejects
    \/ FetchResolvesNotOk
    \/ FetchResolvesOk
    \/ JsonResolves
    \/ JsonRejects
    \/ \E i \in DOMAIN itemImageError : ItemImageError(i)
    \/ \E i \in DOMAIN glazeImageError : \E j \in DOMAIN glazeImageError[i] : GlazeImageError(i, j)

Spec == Init /\ [][Next]_vars

(***************************************************************************)
(* loadData statement by statement: every setter call is a step of its     *)
(* own, and React renders when the continuation has run to its end         *)
(***************************************************************************)
\* a setter call: the useState cell and the value
Update(cell, value) == [cell |-> cell, value |-> value]

ApplyUpdate(st, u) ==
    CASE u.cell = "data"    -> SetData(st, u.value)
      [] u.cell = "error"   -> SetError(st, u.value)
      [] u.cell = "loading" -> SetLoading(st, u.value)

\* the queued calls applied in call order
RECURSIVE ApplyUpdates(_, _)
ApplyUpdates(st, q) ==
    IF Len(q) = 0 THEN st ELSE ApplyUpdates(ApplyUpdate(st, Head(q)), Tail(q))

\* variant of Enqueue: the call is rendered at once instead of being queued
EnqueueUnbatched(u) ==
    /\ pending' = pending
    /\ Commit(ApplyUpdate(Current, u), 1)

\* a setter call inside the continuation: React queues it and renders nothing yet
Enqueue(u) ==
    /\ pending' = Append(pending, u)
    /\ UNCHANGED <<data, error, loading, crashed, itemImageError,
                   glazeImageError, lateUpdates>>

\* the value the catch block receives
Thrown ==
    IF response.outcome = "rejected" THEN response.thrown
    ELSE IF ~ResponseOk(response.status) THEN ErrorValue(HttpErrorMessage(response.status))
    ELSE SyntaxError

\* no continuation of loadData is running: other events can be delivered
BetweenContinuations == pc \in {"init", "awaitFetch", "awaitJson", "done"}

\* await fetch(...) rejects: control enters the catch block
StepFetchRejects ==
    /\ pc = "awaitFetch"
    /\ \E e \in FetchRejections : response' = Rejected(e)
    /\ pc' = "catch"
    /\ UNCHANGED <<mounted, fetchCount, jsonCalled, data, error, loading, crashed,
                   itemImageError, glazeImageError, lateUpdates>>
    /\ UNCHANGED <<utilVars, imageErrors, pending>>

\* await fetch(...) resolves with !response.ok: throw new Error(...), caught
StepFetchNotOk ==
    /\ pc = "awaitFetch"
    /\ \E r \in Responses :
          /\ ~ResponseOk(r.status)
          /\ response' = Resolved(r)
    /\ pc' = "catch"
    /\ UNCHANGED <<mounted, fetchCount, jsonCalled, data, error, loading, crashed,
                   itemImageError, glazeImageError, lateUpdates>>
    /\ UNCHANGED <<utilVars, imageErrors, pending>>

\* await response.json() resolves: control is before setData(json)
StepJsonResolves ==
    /\ pc = "awaitJson"
    /\ response.body.wellFormed
    /\ pc' = "setData"
    /\ UNCHANGED <<mounted, fetchCount, response, jsonCalled, data, error, loading,
                   crashed, itemImageError, glazeImageError, lateUpdates>>
    /\ UNCHANGED <<utilVars, imageErrors, pending>>

\* await response.json() rejects: control enters the catch block
StepJsonRejects ==
    /\ pc = "awaitJson"
    /\ ~response.body.wellFormed
    /\ pc' = "catch"
    /\ UNCHANGED <<mounted, fetchCount, response, jsonCalled, data, error, loading,
                   crashed, itemImageError, glazeImageError, lateUpdates>>
    /\ UNCHANGED <<utilVars, imageErrors, pending>>

\* setData(json)
StepSetData ==
    /\ pc = "setData"
    /\ Enqueue(Update("data", response.body.json))
    /\ pc' = "setError"
    /\ UNCHANGED <<mounted, fetchCount, response, jsonCalled>>
    /\ UNCHANGED <<utilVars, imageErrors>>

\* setError(null)
StepSetErrorNull ==
    /\ pc = "setError"
    /\ Enqueue(Update("error", JsNull))
    /\ pc' = "finally"
    /\ UNCHANGED <<mounted, fetchCount, response, jsonCalled>>
    /\ UNCHANGED <<utilVars, imageErrors>>

\* catch (err): setError(message)
StepSetErrorMessage ==
    /\ pc = "catch"
    /\ Enqueue(Update("error", JsString(CatchMessage(Thrown))))
    /\ pc' = "finally"
    /\ UNCHANGED <<mounted, fetchCount, response, jsonCalled>>
    /\ UNCHANGED <<utilVars, imageErrors>>

\* finally: setLoading(false)
StepSetLoading ==
    /\ pc = "finally"
    /\ Enqueue(Update("loading", FALSE))
    /\ pc' = "flush"
    /\ UNCHANGED <<mounted, fetchCount, response, jsonCalled>>
    /\ UNCHANGED <<utilVars, imageErrors>>

\* loadData returns: React applies the queued calls and renders once
StepFlush ==
    /\ pc = "flush"
    /\ Commit(ApplyUpdates(Current, pending), Len(pending))
    /\ pending' = <<>>
    /\ pc' = "done"
    /\ UNCHANGED <<mounted, fetchCount, response, jsonCalled>>
    /\ UNCHANGED <<utilVars, imageErrors>>

NextSteps ==
    \/ Mount
    \/ BetweenContinuations /\ Unmount
    \/ StepFetchRejects
    \/ StepFetchNotOk
    \/ FetchResolvesOk
    \/ StepJsonResolves
    \/ StepJsonRejects
    \/ StepSetData
    \/ StepSetErrorNull
    \/ StepSetErrorMessage
    \/ StepSetLoading
    \/ StepFlush
    \/ \E i \in DOMAIN itemImageError : ItemImageError(i)
    \/ \E i \in DOMAIN glazeImageError : \E j \in DOMAIN glazeImageError[i] : GlazeImageError(i, j)

SpecSteps == Init /\ [][NextSteps]_vars

\* the promise of response.json() settles and the event loop runs the
\* continuation of loadData that awaits it
LiveSpec == Spec /\ WF_vars(JsonResolves) /\ WF_vars(JsonRejects)

(***************************************************************************)
(* loadData with a fetch promise that may reject with any value: the catch *)
(* block takes Errors of any message and values that are no Error          *)
(***************************************************************************)
\* new Error(''), new Error()
EmptyMessageError == ErrorValue(<<>>)

AnyThrown == FetchRejections \cup {EmptyMessageError}

\* await fetch(...) rejects with any value: catch, finally
FetchRejectsAny ==
    /\ pc = "awaitFetch"
    /\ \E e \in AnyThrown :
          /\ response' = Rejected(e)
          /\ Commit(Finally(Catch(Current, e)), 2)
    /\ pc' = "done"
    /\ UNCHANGED <<mounted, fetchCount, jsonCalled>>
    /\ UNCHANGED <<utilVars, imageErrors, pending>>

NextAnyThrown ==
    \/ Mount
    \/ Unmount
    \/ FetchRejectsAny
    \/ FetchResolvesNotOk
    \/ FetchResolvesOk
    \/ JsonResolves
    \/ JsonRejects
    \/ \E i \in DOMAIN itemImageError : ItemImageError(i)
    \/ \E i \in DOMAIN glazeImageError : \E j \in DOMAIN glazeImageError[i] : GlazeImageError(i, j)

SpecAnyThrown == Init /\ [][NextAnyThrown]_vars

(***************************************************************************)
(* utils.ts on its own: the two functions applied to any short string      *)
(***************************************************************************)
\* characters of the input strings: a letter, the two whitespace characters,
\* an underscore and a punctuation character
Alphabet == {"A", " ", "\t", "_", "/"}

UtilInit ==
    /\ AppInit
    /\ utilInput \in SeqsUpTo(Alphabet, MaxNameLen)
    /\ glazeUrl = <<>>
    /\ itemUrl = <<>>

\* getGlazeImageUrl(utilInput) is called
CallGetGlazeImageUrl ==
    /\ glazeUrl = <<>>
    /\ glazeUrl' = getGlazeImageUrl(utilInput)
    /\ UNCHANGED <<appVars, utilInput, itemUrl>>

\* getItemImageUrl(utilInput) is called
CallGetItemImageUrl ==
    /\ itemUrl = <<>>
    /\ itemUrl' = getItemImageUrl(utilInput)
    /\ UNCHANGED <<appVars, utilInput, glazeUrl>>

UtilNext ==
    \/ CallGetGlazeImageUrl
    \/ CallGetItemImageUrl

SpecUtils == UtilInit /\ [][UtilNext]_vars

(***************************************************************************)
(* What is on the page                                                     *)
(***************************************************************************)
\* App is on the page: mounted and no render has thrown
Rendering == mounted /\ ~crashed

LoadingShown == Rendering /\ LoadingCond(Current)

ErrorShown == Rendering /\ ErrorCond(Current)

GridShown == Rendering /\ GridCond(Current)

EmptyShown == Rendering /\ EmptyCond(Current)

\* the main views on the page
MainViews ==
    {v \in {"loading", "error", "grid", "empty"} :
        \/ v = "loading" /\ LoadingShown
        \/ v = "error" /\ ErrorShown
        \/ v = "grid" /\ GridShown
        \/ v = "empty" /\ EmptyShown}

\* number of ItemCard blocks on the page
EntityBlocks == IF Rendering THEN Len(RenderedItems(Current)) ELSE 0

\* the ItemCard blocks on the page, in order
ItemCards ==
    IF Rendering
    THEN [i \in DOMAIN RenderedItems(Current) |->
             ItemCardView(RenderedItems(Current)[i], itemImageError[i], glazeImageError[i])]
    ELSE <<>>

Health == HealthProps(Current)

\* the health indicator on the page; nothing is shown when App is not on the page
HealthIndicator ==
    IF Rendering
    THEN [shown |-> TRUE, healthy |-> Health.healthy, text |-> Health.text]
    ELSE [shown |-> FALSE, healthy |-> FALSE, text |-> <<>>]

\* the loader's state of spec section 4.2, read off the three useState cells
Pending == error = JsNull /\ loading

Failed == error # JsNull

Loaded == error = JsNull /\ ~loading

(***************************************************************************)
(* Cases of a finished load                                                *)
(***************************************************************************)
\* loadData ran to its end while App was mounted, and App is still mounted
Completed == mounted /\ pc = "done"

\* the fetch resolved with a success status and a body that parsed
GotDocument ==
    /\ response.outcome = "resolved"
    /\ ResponseOk(response.status)
    /\ response.body.wellFormed

\* the load went through the catch block
CatchRan ==
    \/ response.outcome = "rejected"
    \/ response.outcome = "resolved" /\ ~ResponseOk(response.status)
    \/ response.outcome = "resolved" /\ ResponseOk(response.status)
          /\ ~response.body.wellFormed

\* the `links` field of the document that was fetched
FetchedLinks == GetLinks(response.body.json)

(***************************************************************************)
(* C1..C10                                                                 *)
(***************************************************************************)
\* C1: a document that parsed but has no `links` field leaves the loader Failed
\* with the error panel shown, health unhealthy, and neither grid nor empty state.
C1_MissingLinksFails ==
    (Completed /\ GotDocument /\ response.body.json.kind = "object"
        /\ FetchedLinks.kind = "undefined")
    => (Failed /\ ErrorShown /\ ~Health.healthy /\ ~GridShown /\ ~EmptyShown)

\* C2: a document whose `links` is a string, a number or an object leaves the loader
\* Failed with a message, rendering does not crash, and only a sequence ever
\* reaches data.links.map.
C2_NonSequenceLinksFails ==
    /\ (Completed /\ GotDocument
          /\ FetchedLinks.kind \in {"string", "number", "object"})
       => (Failed /\ ErrorShown /\ ~crashed)
    /\ (GridCond(Current) => GetLinks(data).kind = "array")

\* C3: the document {"links": []} renders the empty state, no grid, no entity block.
C3_EmptyLinksShowsEmptyState ==
    (Completed /\ GotDocument /\ FetchedLinks.kind = "array" /\ FetchedLinks.items = <<>>)
    => (EmptyShown /\ ~GridShown /\ EntityBlocks = 0)

\* C4: no setter (setData, setError, setLoading) is called for a response that
\* arrives after App was unmounted.
C4_NoUpdateAfterUnmount == lateUpdates = 0

\* C5: a loaded entity without `glaze` is rendered as a block with zero
\* sub-resource blocks; nothing crashes and all sibling blocks stay.
C5_MissingGlazeIsEmpty ==
    (Completed /\ GotDocument /\ FetchedLinks.kind = "array"
        /\ \E i \in DOMAIN FetchedLinks.items : FetchedLinks.items[i].glaze.kind = "undefined")
    => /\ ~crashed
       /\ EntityBlocks = Len(FetchedLinks.items)
       /\ \A i \in DOMAIN FetchedLinks.items :
             FetchedLinks.items[i].glaze.kind = "undefined"
                => (i \in DOMAIN glazeImageError /\ glazeImageError[i] = <<>>)

\* C6: the fetch is issued exactly once per mount, and once the loader has left
\* Pending its data, error and loading never change again.
C6_SingleTransition ==
    [][ /\ fetchCount' = (IF pc' = "init" THEN 0 ELSE 1)
        /\ (~Pending => (data' = data /\ error' = error /\ loading' = loading)) ]_vars

C6_Witness ==
    /\ mounted /\ Loaded /\ fetchCount = 1
    /\ \E i \in DOMAIN itemImageError : itemImageError[i]

\* C7: a non-success status leaves the loader Failed with a message containing
\* the status code; response.json() is never called, no document is stored,
\* the error panel is shown and no entity block is rendered.
C7_NotOkFails ==
    (Completed /\ response.outcome = "resolved" /\ ~ResponseOk(response.status))
    => /\ Failed
       /\ error.kind = "string"
       /\ \E i \in DOMAIN error.parts : error.parts[i] = ToString(response.status)
       /\ ~jsonCalled
       /\ data = DocNull
       /\ ErrorShown
       /\ EntityBlocks = 0

C7_Witness ==
    /\ Completed /\ response.outcome = "resolved"
    /\ response.status = 404 /\ response.body.wellFormed

\* C8: a success status with a body that fails to parse leaves the loader
\* Failed with the parser's message, and no document is stored.
C8_ParseFailureFails ==
    (Completed /\ response.outcome = "resolved" /\ ResponseOk(response.status)
        /\ ~response.body.wellFormed)
    => (Failed /\ error = JsString(SyntaxError.message) /\ data = DocNull)

C8_Witness ==
    /\ Completed /\ jsonCalled /\ response.outcome = "resolved"
    /\ ~response.body.wellFormed

\* C9: while the loader is Failed the page shows the error panel with the
\* reason verbatim and the hint, and no loading indicator, grid, entity block
\* or empty state.
C9_FailedShowsOnlyError ==
    (mounted /\ Failed)
    => /\ ErrorShown
       /\ ErrorPanel(Current) = <<<<"Error Loading Data">>, error.parts, Hint>>
       /\ ~LoadingShown /\ ~GridShown /\ ~EmptyShown
       /\ EntityBlocks = 0

C9_Witness == mounted /\ Failed /\ response.outcome = "rejected"

\* C10: while the fetch has not completed the page shows the loading indicator
\* and no error panel, grid or empty state.
C10_PendingShowsOnlyLoading ==
    (mounted /\ pc \in {"awaitFetch", "awaitJson"})
    => (LoadingShown /\ ~ErrorShown /\ ~GridShown /\ ~EmptyShown)

C10_Witness == mounted /\ pc = "awaitJson" /\ response.body.wellFormed

(***************************************************************************)
(* C11..C20                                                                *)
(***************************************************************************)
\* C11: a loaded document whose links has N >= 1 entities is rendered as exactly
\* N ItemCard blocks, the i-th block built from the i-th entity.
C11_RendersAllEntities ==
    (Completed /\ GotDocument /\ FetchedLinks.kind = "array" /\ Len(FetchedLinks.items) >= 1)
    => /\ Len(ItemCards) = Len(FetchedLinks.items)
       /\ \A i \in DOMAIN FetchedLinks.items :
             /\ RenderedItems(Current)[i] = FetchedLinks.items[i]
             /\ ItemCards[i].title = FetchedLinks.items[i].item

\* C12: every image renderer instance starts Displaying (its <img> requests the
\* image) and, once its imageError is set, shows the placeholder in every later
\* state of its lifetime: imageError is never reset and the <img> never returns.
C12_LatchIsOneWay ==
    [][ /\ \A i \in DOMAIN itemImageError' \ DOMAIN itemImageError : ~itemImageError'[i]
        /\ \A i \in DOMAIN glazeImageError' \ DOMAIN glazeImageError :
              \A j \in DOMAIN glazeImageError'[i] : ~glazeImageError'[i][j]
        /\ \A i \in DOMAIN itemImageError :
              itemImageError[i] => (i \in DOMAIN itemImageError' /\ itemImageError'[i])
        /\ \A i \in DOMAIN glazeImageError : \A j \in DOMAIN glazeImageError[i] :
              glazeImageError[i][j]
                 => /\ i \in DOMAIN glazeImageError'
                    /\ j \in DOMAIN glazeImageError'[i]
                    /\ glazeImageError'[i][j]
        /\ \A i \in DOMAIN ItemCards \cap DOMAIN ItemCards' :
              /\ ItemCards[i].image.tag = "placeholder" => ItemCards'[i].image.tag = "placeholder"
              /\ \A j \in DOMAIN ItemCards[i].glazes :
                    ItemCards[i].glazes[j].image.tag = "placeholder"
                       => ItemCards'[i].glazes[j].image.tag = "placeholder" ]_vars

C12_Witness ==
    /\ Rendering
    /\ \E i \in DOMAIN ItemCards :
          /\ ItemCards[i].image.tag = "placeholder"
          /\ \E j \in DOMAIN ItemCards[i].glazes :
                /\ ItemCards[i].glazes[j].image.tag = "placeholder"
                /\ \E k \in DOMAIN ItemCards[i].glazes : ItemCards[i].glazes[k].image.tag = "img"

\* the string text contains the string sub
Contains(text, sub) ==
    \E k \in 1..(Len(text) - Len(sub) + 1) : SubSeq(text, k, k + Len(sub) - 1) = sub

\* the image renderer instances whose imageError differs between two states
ChangedItemLatches ==
    {i \in DOMAIN itemImageError \cap DOMAIN itemImageError' :
        itemImageError'[i] # itemImageError[i]}

ChangedGlazeLatches ==
    UNION { { <<i, j>> : j \in {l \in DOMAIN glazeImageError[i] \cap DOMAIN glazeImageError'[i] :
                                   glazeImageError'[i][l] # glazeImageError[i][l]} } :
            i \in DOMAIN glazeImageError \cap DOMAIN glazeImageError' }

\* C13: a load-error event changes the imageError of one instance only; that
\* instance shows a placeholder containing the item identifier (item image) or
\* the glaze name (glaze image); every other instance, also one with the same
\* locator, keeps its state.
C13_ErrorChangesOneInstance ==
    [][ /\ Cardinality(ChangedItemLatches) + Cardinality(ChangedGlazeLatches) <= 1
        /\ \A i \in ChangedItemLatches :
              /\ ItemCards'[i].image.tag = "placeholder"
              /\ Contains(ItemCards'[i].image.text, RenderedItems(Current)[i].itemId)
        /\ \A ij \in ChangedGlazeLatches :
              /\ ItemCards'[ij[1]].glazes[ij[2]].image.tag = "placeholder"
              /\ Contains(ItemCards'[ij[1]].glazes[ij[2]].image.text,
                          RenderedItems(Current)[ij[1]].glaze.items[ij[2]]) ]_vars

C13_Witness ==
    /\ Rendering
    /\ \E i, k \in DOMAIN ItemCards :
          /\ i # k
          /\ getItemImageUrl(RenderedItems(Current)[i].itemId)
                = getItemImageUrl(RenderedItems(Current)[k].itemId)
          /\ ItemCards[i].image.tag = "placeholder" /\ ItemCards[k].image.tag = "img"
          /\ \E j \in DOMAIN ItemCards[i].glazes, l \in DOMAIN ItemCards[k].glazes :
                /\ ItemCards[i].glazes[j].title = ItemCards[k].glazes[l].title
                /\ ItemCards[i].glazes[j].image.tag = "placeholder"
                /\ ItemCards[k].glazes[l].image.tag = "img"

\* C14: a step in which an image fails leaves data, error and loading as they
\* were; the error panel is not shown before or after it and the health
\* indicator is unchanged.
C14_ImageErrorKeepsLoader ==
    [][ (ChangedItemLatches # {} \/ ChangedGlazeLatches # {})
        => /\ data' = data /\ error' = error /\ loading' = loading
           /\ ~ErrorShown /\ ~ErrorShown'
           /\ ErrorPanel(Current)' = <<>>
           /\ Health' = Health ]_vars

C14_Witness ==
    /\ Rendering /\ Loaded /\ Health.healthy /\ ~ErrorShown
    /\ Len(ItemCards) >= 2
    /\ \A i \in DOMAIN ItemCards :
          /\ ItemCards[i].image.tag = "placeholder"
          /\ \A j \in DOMAIN ItemCards[i].glazes : ItemCards[i].glazes[j].image.tag = "placeholder"

\* C15: while App is mounted the health indicator shows healthy iff the loader
\* is Loaded, unhealthy with the failure reason iff it is Failed, and unhealthy
\* with 'Unknown' iff it is Pending.
C15_HealthFollowsLoader ==
    mounted
    => /\ (HealthIndicator.shown /\ HealthIndicator.healthy
              /\ HealthIndicator.text = <<"Healthy">>) <=> Loaded
       /\ (HealthIndicator.shown /\ ~HealthIndicator.healthy
              /\ HealthIndicator.text = <<"Error: ">> \o error.parts) <=> Failed
       /\ (HealthIndicator.shown /\ ~HealthIndicator.healthy
              /\ HealthIndicator.text = <<"Error: ", "Unknown">>) <=> Pending

RECURSIVE Flatten(_)
\* concatenation of a sequence of strings
Flatten(ss) == IF ss = <<>> THEN <<>> ELSE Head(ss) \o Flatten(Tail(ss))

\* s with every maximal whitespace run replaced by one underscore, position by
\* position: a character that is not whitespace stays, the first character of
\* a run becomes "_", the other characters of a run disappear
Collapsed(s) ==
    Flatten([i \in 1..Len(s) |->
                IF ~IsWhitespace(s[i]) THEN <<s[i]>>
                ELSE IF i > 1 /\ IsWhitespace(s[i - 1]) THEN <<>>
                ELSE <<"_">>])

\* text ends with the string suffix
EndsWith(text, suffix) ==
    /\ Len(suffix) <= Len(text)
    /\ SubSeq(text, Len(text) - Len(suffix) + 1, Len(text)) = suffix

\* C16: getGlazeImageUrl(name) is '/data/images/glazes/', then name with every
\* maximal whitespace run replaced by exactly one underscore and every other
\* character unchanged, then '.jpg'; 'Honey Flux' ends in 'Honey_Flux.jpg'.
C16_GlazeUrlCollapsesRuns ==
    /\ glazeUrl # <<>>
          => glazeUrl = <<"/data/images/glazes/">> \o Collapsed(utilInput) \o <<".jpg">>
    /\ EndsWith(getGlazeImageUrl(HoneyFlux),
                <<"H", "o", "n", "e", "y", "_", "F", "l", "u", "x", ".jpg">>)

C16_Witness ==
    /\ glazeUrl # <<>>
    /\ \E i \in 1..(Len(utilInput) - 3) :
          /\ ~IsWhitespace(utilInput[i])
          /\ IsWhitespace(utilInput[i + 1]) /\ IsWhitespace(utilInput[i + 2])
          /\ ~IsWhitespace(utilInput[i + 3])

\* the strings obtained from s by making one whitespace run one character longer
Stretch(s) ==
    { SubSeq(s, 1, i) \o <<w>> \o SubSeq(s, i + 1, Len(s)) :
         i \in {k \in DOMAIN s : IsWhitespace(s[k])}, w \in Whitespace }

\* C17: a name and the same name with a whitespace run lengthened get the same
\* locator, and normalizing the already normalized name changes nothing.
C17_GlazeUrlIgnoresRunLength ==
    glazeUrl # <<>>
    => /\ \A longer \in Stretch(utilInput) :
             /\ getGlazeImageUrl(longer) = glazeUrl
             /\ \A longest \in Stretch(longer) : getGlazeImageUrl(longest) = glazeUrl
       /\ getGlazeImageUrl(SubSeq(glazeUrl, 2, Len(glazeUrl) - 1)) = glazeUrl

C17_Witness ==
    /\ glazeUrl # <<>>
    /\ \E i, j, k \in DOMAIN utilInput :
          /\ i < j /\ j < k
          /\ IsWhitespace(utilInput[i]) /\ ~IsWhitespace(utilInput[j]) /\ IsWhitespace(utilInput[k])

\* C18: for a non-empty id, getItemImageUrl(id) is '/data/images/items/', then
\* id character by character, then '.jpg'.
C18_ItemUrlVerbatim ==
    (itemUrl # <<>> /\ utilInput # <<>>)
    => /\ Len(itemUrl) = Len(utilInput) + 2
       /\ itemUrl[1] = "/data/images/items/"
       /\ itemUrl[Len(itemUrl)] = ".jpg"
       /\ \A i \in DOMAIN utilInput : itemUrl[i + 1] = utilInput[i]

C18_Witness ==
    /\ itemUrl # <<>>
    /\ \E i, j \in DOMAIN utilInput : IsWhitespace(utilInput[i]) /\ utilInput[j] = "/"

\* the entity of the round-trip document: itemId "1", item "X", glaze
\* ["Honey Flux", "Oatmeal"]
RoundTripEntity == GlazeItem(<<"1">>, <<"X">>, "Cone 6", JsArray(<<HoneyFlux, Oatmeal>>))

\* C19: every entity block has one item image fed by '/data/images/items/' +
\* itemId + '.jpg' and one GlazeDisplay per element of glaze, in order, each
\* titled with the name and fed by the glazes path with the normalized name;
\* the round-trip document gives one block titled 'X' whose glaze images are
\* requested from locators ending 'Honey_Flux.jpg' and 'Oatmeal.jpg'.
C19_CardFollowsEntity ==
    /\ \A i \in DOMAIN ItemCards :
          LET item == RenderedItems(Current)[i]
              card == ItemCards[i]
          IN  /\ card.title = item.item
              /\ card.image.tag = "img"
                    => card.image.src = <<"/data/images/items/">> \o item.itemId \o <<".jpg">>
              /\ Len(card.glazes) = Len(item.glaze.items)
              /\ \A j \in DOMAIN item.glaze.items :
                    /\ card.glazes[j].title = item.glaze.items[j]
                    /\ card.glazes[j].image.tag = "img"
                          => card.glazes[j].image.src
                                = <<"/data/images/glazes/">> \o Collapsed(item.glaze.items[j])
                                     \o <<".jpg">>
    /\ (Completed /\ GotDocument /\ FetchedLinks = JsArray(<<RoundTripEntity>>))
          => /\ Len(ItemCards) = 1
             /\ ItemCards[1].title = <<"X">>
             /\ Len(ItemCards[1].glazes) = 2
             /\ ItemCards[1].glazes[1].image.tag = "img"
                   => EndsWith(ItemCards[1].glazes[1].image.src,
                               <<"H", "o", "n", "e", "y", "_", "F", "l", "u", "x", ".jpg">>)
             /\ ItemCards[1].glazes[2].image.tag = "img"
                   => EndsWith(ItemCards[1].glazes[2].image.src,
                               <<"O", "a", "t", "m", "e", "a", "l", ".jpg">>)

\* the round-trip document right after it was loaded: all three images are requested
C19_Witness ==
    /\ Completed /\ GotDocument /\ FetchedLinks = JsArray(<<RoundTripEntity>>)
    /\ Len(ItemCards) = 1
    /\ ItemCards[1].image.tag = "img"
    /\ \A j \in DOMAIN ItemCards[1].glazes : ItemCards[1].glazes[j].image.tag = "img"

\* C20: the state of the page is a function of the set of images whose
\* load-error event was delivered, whatever the order of delivery: exactly
\* those images show the placeholder, and the loader state is the one the
\* load left.
C20_OrderDoesNotMatter ==
    /\ \A i \in DOMAIN itemImageError : itemImageError[i] <=> ItemEvent(i) \in imageErrors
    /\ \A i \in DOMAIN glazeImageError : \A j \in DOMAIN glazeImageError[i] :
          glazeImageError[i][j] <=> GlazeEvent(i, j) \in imageErrors
    /\ \A i \in DOMAIN ItemCards :
          /\ ItemCards[i].image.tag = "placeholder" <=> ItemEvent(i) \in imageErrors
          /\ \A j \in DOMAIN ItemCards[i].glazes :
                ItemCards[i].glazes[j].image.tag = "placeholder"
                   <=> GlazeEvent(i, j) \in imageErrors
    /\ imageErrors # {} => (Loaded /\ data = response.body.json)

\* three or more images of a two-card page have failed, and one has not
C20_Witness ==
    /\ Rendering
    /\ Cardinality(imageErrors) >= 3
    /\ \E i, k \in DOMAIN ItemCards :
          /\ i # k
          /\ ItemEvent(i) \in imageErrors
          /\ \E l \in DOMAIN ItemCards[k].glazes : GlazeEvent(k, l) \in imageErrors
          /\ \E j \in DOMAIN ItemCards[i].glazes :
                /\ GlazeEvent(i, j) \in imageErrors
                /\ \E m \in DOMAIN ItemCards[i].glazes : ItemCards[i].glazes[m].image.tag = "img"

(***************************************************************************)
(* C21..C26                                                                *)
(***************************************************************************)
\* the fetched document has two entities with the same itemId
DuplicateIds ==
    /\ FetchedLinks.kind = "array"
    /\ \E i, k \in DOMAIN FetchedLinks.items :
          i # k /\ FetchedLinks.items[i].itemId = FetchedLinks.items[k].itemId

\* C21: a loaded document with two entities of the same itemId is not rejected:
\* the loader is Loaded, no error is shown, and every entity, the two with the
\* same itemId included, has its own block with its own imageError.
C21_DuplicateIdsRendered ==
    (Completed /\ GotDocument /\ DuplicateIds)
    => /\ Loaded /\ ~ErrorShown
       /\ Len(ItemCards) = Len(FetchedLinks.items)
       /\ DOMAIN itemImageError = DOMAIN FetchedLinks.items
       /\ \A i \in DOMAIN FetchedLinks.items :
             ItemCards[i].title = FetchedLinks.items[i].item

\* C22: in every state, the states between the setter calls of loadData
\* included, at most one of the loading indicator, the error panel, the item
\* grid and the empty state is on the page.
C22_AtMostOneMainView == Cardinality(MainViews) <= 1

\* between setError(message) and setLoading(false): only the loading indicator
C22_Witness ==
    /\ mounted /\ pc = "finally"
    /\ Len(pending) = 1
    /\ pending[1].cell = "error"
    /\ Truthy(pending[1].value)
    /\ MainViews = {"loading"}

\* C23: after the catch block ran, whatever was thrown (an Error of any message,
\* the empty one included, or a value that is no Error), the error panel is
\* shown, the health indicator is unhealthy, and neither the item grid nor the
\* empty state is on the page.
C23_CatchShowsError ==
    (Completed /\ CatchRan)
    => /\ ErrorShown
       /\ HealthIndicator.shown /\ ~HealthIndicator.healthy
       /\ ~GridShown /\ ~EmptyShown

\* the fetch promise has settled
FetchSettled == response.outcome # "none"

\* C24: once the fetch has settled, the loader of a mounted App leaves Pending
\* on every path through loadData (success, non-success status, parse failure,
\* rejection): the loading flag becomes false, it is false when loadData has
\* run to its end, and once false it never becomes true again.
C24_LoadingEnds ==
    /\ (FetchSettled ~> (~mounted \/ ~loading))
    /\ [](Completed => ~loading)
    /\ [][~loading => ~loading']_vars

\* the success path went through `await response.json()` and ended with loading false
C24_Witness == Completed /\ jsonCalled /\ GotDocument /\ ~loading

\* C25: the stored document and the stored error are never both non-null; after
\* a load that went through the catch block the document is null, after a load
\* that got a document the error is null.
C25_DocumentOrError ==
    /\ ~(data # DocNull /\ error # JsNull)
    /\ (Completed /\ CatchRan) => data = DocNull
    /\ (Completed /\ GotDocument) => error = JsNull

C25_Witness ==
    /\ Completed /\ GotDocument
    /\ data # DocNull
    /\ error = JsNull

\* C26: the health indicator shows 'Healthy' exactly when the item grid or the
\* empty state is on the page, and shows an unhealthy text exactly when the
\* loading indicator or the error panel is on the page.
C26_HealthAgreesWithMainArea ==
    /\ (HealthIndicator.shown /\ HealthIndicator.text = <<"Healthy">>)
          <=> (GridShown \/ EmptyShown)
    /\ (HealthIndicator.shown /\ HealthIndicator.text # <<"Healthy">>)
          <=> (LoadingShown \/ ErrorShown)

C26_Witness ==
    /\ HealthIndicator.shown
    /\ HealthIndicator.text = <<"Healthy">>
    /\ GridShown
    /\ EntityBlocks > 0

====
